---- MODULE Spec2Model ----
(***************************************************************************)
(* A model of the CI-failure remediation agent of src/agent.py: the log    *)
(* classifier (the two regular-expression searches), the approval flag,    *)
(* the manifest mutation, the git commit/push helper and CIFixAgent.run.   *)
(*                                                                         *)
(* Text is a sequence of tokens.  A token is one character ("'", " ",      *)
(* "\n", "a", ...) or one word without whitespace or quotes ("No",         *)
(* "module", "Requires-Python", ...), so that the character classes of the *)
(* regular expressions are decided token by token.                         *)
(***************************************************************************)
EXTENDS Integers, Sequences, FiniteSets, TLC

(***************************************************************************)
(* Bounds of the model.                                                    *)
(***************************************************************************)
\* a log given to the classifier alone is the concatenation of at most MaxPieces fragments
MaxPieces == 3
\* a log fetched by a run is the concatenation of at most MaxRunPieces fragments
MaxRunPieces == 1
\* an initial manifest holds at most MaxManifestLen tokens
MaxManifestLen == 2
\* number of invocations of the agent on the same working tree
MaxRuns == 2
\* number of workflow runs the listing returns
MaxListed == 2
\* a log of the single invocation that is followed from its log to its end is the
\* concatenation of at most MaxFixPieces fragments
MaxFixPieces == 2
\* a log given to make_log_excerpt holds at most MaxPad filler lines before, between
\* and after its error line and its marker line
MaxPad == 11

(***************************************************************************)
(* Text helpers.                                                           *)
(***************************************************************************)
\* Python's None for Optional results: the empty tuple; Some(x) is <<x>>.
None == <<>>

Some(x) == <<x>>

\* ['\"] of the regular expression at src/agent.py:42
IsQuote(c) == c \in {"'", "\""}

\* \s of the regular expressions, and the characters str.strip() removes
IsSpace(c) == c \in {" ", "\n", "\t"}

\* the characters str.splitlines() splits at
IsNewline(c) == c = "\n"

\* the text s continues with the literal lit at position i
MatchLit(s, i, lit) ==
    /\ i >= 1
    /\ i + Len(lit) - 1 <= Len(s)
    /\ \A k \in 1..Len(lit) : s[i + k - 1] = lit[k]

\* least element of a non-empty set of integers
Min(S) == CHOOSE x \in S : \A y \in S : x <= y

\* greatest element of a non-empty set of integers
Max(S) == CHOOSE x \in S : \A y \in S : x >= y

\* str.strip(): drop leading and trailing whitespace
strip(s) ==
    LET keep == {i \in 1..Len(s) : ~IsSpace(s[i])}
    IN  IF keep = {} THEN <<>> ELSE SubSeq(s, Min(keep), Max(keep))

RECURSIVE Flatten(_)
\* concatenation of a sequence of texts
Flatten(ss) == IF ss = <<>> THEN <<>> ELSE Head(ss) \o Flatten(Tail(ss))

(***************************************************************************)
(* Log analysis.                                                           *)
(***************************************************************************)
\* the literal "No module named " of the pattern
NoModuleNamed == <<"No", " ", "module", " ", "named", " ">>

\* positions j of the closing quote of a match of the pattern that starts at i:
\* the literal, a quote, one or more non-quote tokens, a quote
MissingMatchEnd(logs, i) ==
    LET q == i + Len(NoModuleNamed)
    IN  IF MatchLit(logs, i, NoModuleNamed) /\ q <= Len(logs) /\ IsQuote(logs[q])
        THEN {j \in (q + 2)..Len(logs) :
                 /\ IsQuote(logs[j])
                 /\ \A k \in (q + 1)..(j - 1) : ~IsQuote(logs[k])}
        ELSE {}

\* re.search(r"No module named ['\"]([^'\"]+)['\"]", logs): m.group(1).strip() or None
find_missing_dependency(logs) ==
    LET starts == {i \in 1..Len(logs) : MissingMatchEnd(logs, i) # {}}
    IN  IF starts = {} THEN None
        ELSE LET i == Min(starts)
                 q == i + Len(NoModuleNamed)
                 j == Min(MissingMatchEnd(logs, i))
             IN  Some(strip(SubSeq(logs, q + 1, j - 1)))

\* number of consecutive tokens of s from position i on that are whitespace
SpaceRun(s, i) ==
    LET stop == {k \in i..Len(s) : ~IsSpace(s[k])}
    IN  IF stop = {} THEN Len(s) - i + 1 ELSE Min(stop) - i

\* number of consecutive tokens of s from position i on that are not whitespace
WordRun(s, i) ==
    LET stop == {k \in i..Len(s) : IsSpace(s[k])}
    IN  IF stop = {} THEN Len(s) - i + 1 ELSE Min(stop) - i

\* number of consecutive tokens of s from position i on that are not a newline
LineRun(s, i) ==
    LET stop == {k \in i..Len(s) : IsNewline(s[k])}
    IN  IF stop = {} THEN Len(s) - i + 1 ELSE Min(stop) - i

\* \s+([^\n]+) matched at position r: the group, or None.  \s+ is greedy and gives
\* back whitespace until a token that is not a newline follows it.
ConstraintAt(s, r) ==
    LET w  == SpaceRun(s, r)
        ks == {k \in 1..w : r + k <= Len(s) /\ ~IsNewline(s[r + k])}
    IN  IF ks = {} THEN None
        ELSE LET g == r + Max(ks)
             IN  Some(SubSeq(s, g, g + LineRun(s, g) - 1))

\* the literal "requires Python" of the first pattern
RequiresPython == <<"requires", " ", "Python">>

\* Package\s+([^\s]+)\s+requires Python\s+([^\n]+) matched at position i:
\* <<group 1, group 2>>, or None
PackageMatchAt(logs, i) ==
    IF ~MatchLit(logs, i, <<"Package">>) THEN None
    ELSE LET w1 == SpaceRun(logs, i + 1)
             a  == i + 1 + w1
             n  == WordRun(logs, a)
             w2 == SpaceRun(logs, a + n)
             r  == a + n + w2
         IN  IF w1 = 0 \/ n = 0 \/ w2 = 0 \/ ~MatchLit(logs, r, RequiresPython)
             THEN None
             ELSE LET c == ConstraintAt(logs, r + Len(RequiresPython))
                  IN  IF c = None THEN None
                      ELSE <<SubSeq(logs, a, a + n - 1), c[1]>>

\* Requires-Python\s+([^\n]+) matched at position i: <<group 1>>, or None
RequiresMatchAt(logs, i) ==
    IF ~MatchLit(logs, i, <<"Requires-Python">>) THEN None
    ELSE ConstraintAt(logs, i + 1)

\* the two patterns are tried in order; the first that matches anywhere decides
find_python_version_conflict(logs) ==
    LET s1 == {i \in 1..Len(logs) : PackageMatchAt(logs, i) # None}
        s2 == {i \in 1..Len(logs) : RequiresMatchAt(logs, i) # None}
    IN  IF s1 # {} THEN PackageMatchAt(logs, Min(s1))
        ELSE IF s2 # {} THEN <<<<"unknown-package">>, RequiresMatchAt(logs, Min(s2))[1]>>
        ELSE None

(***************************************************************************)
(* The logs the model draws from: concatenations of fragments.             *)
(***************************************************************************)
\* a well-formed "No module named" marker quoting the name m
Marker(m) == NoModuleNamed \o <<"'">> \o m \o <<"'">>

Pieces ==
    { Marker(<<"a">>), Marker(<<"b">>), Marker(<<" ">>), Marker(<<"a", "\n", "b">>),
      NoModuleNamed \o <<"'">>,
      <<"'">>, <<"a">>, <<" ">>, <<"\n">>,
      <<"Requires-Python">>,
      <<"Requires-Python", " ", "c">>,
      <<"Package", " ", "p", " ", "requires", " ", "Python", " ", "d">> }

RECURSIVE SeqsUpTo(_, _)
\* the sequences over S of length at most n
SeqsUpTo(S, n) ==
    IF n = 0 THEN {<<>>}
    ELSE LET shorter == SeqsUpTo(S, n - 1)
         IN  shorter \cup {Append(s, x) : s \in shorter, x \in S}

Logs == {Flatten(ps) : ps \in SeqsUpTo(Pieces, MaxPieces)}

\* the fragments of the logs a run may fetch: one of each kind
RunPieces ==
    { Marker(<<"a">>), Marker(<<" ">>), Marker(<<"a", "\n", "b">>),
      <<"a">>, <<"Requires-Python", " ", "c">> }

\* the logs a run may fetch
RunLogs == {Flatten(ps) : ps \in SeqsUpTo(RunPieces, MaxRunPieces)}

(***************************************************************************)
(* The dependency manifest.                                                *)
(***************************************************************************)
RECURSIVE splitlines(_)
\* str.splitlines(): the lines of a text, without their line ends
splitlines(s) ==
    IF s = <<>> THEN <<>>
    ELSE LET n == LineRun(s, 1)
         IN  <<SubSeq(s, 1, n)>> \o splitlines(SubSeq(s, n + 2, Len(s)))

RECURSIVE join(_)
\* "\n".join(lines)
join(lines) ==
    IF lines = <<>> THEN <<>>
    ELSE IF Len(lines) = 1 THEN lines[1]
    ELSE lines[1] \o <<"\n">> \o join(Tail(lines))

\* the elements of a sequence
Range(f) == {f[i] : i \in DOMAIN f}

\* `dep not in content` of FilesystemTool.add_dependency
NeedsWrite(text, dep) == dep \notin Range(splitlines(text))

\* FilesystemTool.add_dependency: the text of requirements.txt after the call
add_dependency(text, dep) ==
    LET content == splitlines(text)
    IN  IF NeedsWrite(text, dep)
        THEN join(Append(content, dep)) \o <<"\n">>
        ELSE text

\* the manifests a working tree may start with
Manifests == SeqsUpTo({"a", "\n"}, MaxManifestLen)

(***************************************************************************)
(* The evidence excerpt.  The length of a text is counted in tokens.       *)
(***************************************************************************)
\* the default of the parameter max_chars
DefaultMaxChars == 1800

\* "\n... (truncated)"
TruncationMark == <<"\n", "...", " ", "(truncated)">>

\* `"ERROR" in l or "ModuleNotFoundError" in l`
IsErrorLine(l) == "ERROR" \in Range(l) \/ "ModuleNotFoundError" \in Range(l)

\* make_log_excerpt(logs, max_lines, max_chars); max_lines is not used
make_log_excerpt(l, max_lines, cap) ==
    LET lines   == splitlines(l)
        hits    == {i \in 1..Len(lines) : IsErrorLine(lines[i])}
        idx     == IF hits = {} THEN 0 ELSE Min(hits) - 1
        snippet == SubSeq(lines, Max({0, idx - 10}) + 1, Min({idx + 10, Len(lines)}))
        text    == strip(join(snippet))
    IN  IF Len(text) > cap
        THEN SubSeq(text, 1, cap) \o TruncationMark
        ELSE text

\* k filler lines, each ended by a line end
Pad(k) == Flatten([i \in 1..k |-> <<"x", "\n">>])

\* the line that reports the missing module, with or without the exception's name
MarkerLines ==
    { Marker(<<"a">>), <<"ModuleNotFoundError", " ">> \o Marker(<<"a">>) }

\* a line of another step of the job that reports an error, or no such line
ErrorLines == { <<>>, <<"ERROR", " ", "x", "\n">> }

\* the logs given to make_log_excerpt
ExcerptLogs ==
    { Pad(n1) \o e \o Pad(n2) \o m \o <<"\n">> \o Pad(n3) :
        n1 \in 0..MaxPad, n2 \in 0..MaxPad, n3 \in 0..MaxPad,
        e \in ErrorLines, m \in MarkerLines }

\* the values of max_chars: one that the window exceeds, and the default
Caps == {6, DefaultMaxChars}

(***************************************************************************)
(* The collaborators' possible answers.                                    *)
(***************************************************************************)
\* values of the environment variable CI_JANITOR_APPROVED ("" is unset)
Flags == {"", "1", "true"}

\* the phrase the diagnosis comment asks a human to reply with
ApprovalToken == "/ci-janitor approve"

\* bodies of comments a human may have left on the pull request
Bodies == {ApprovalToken, "lgtm"}

\* other pending state of the working tree, next to requirements.txt
Others == {"clean", "unstaged", "staged"}

\* the head commit of the pull request
PrHead == "s1"

\* values of the environment variable PR_BRANCH (None is unset)
PrBranches == {None, Some("pr-branch")}

\* values of the environment variable GITHUB_HEAD_REF (None is unset)
HeadRefs == {None, Some("head-ref")}

\* the names under which the context hands over the pull request's source branch
SourceBranchNames == {"pr-branch", "head-ref"}

\* workflow runs as the listing returns them; the id of a run is its position
ListingsOf(rs) ==
    [i \in 1..Len(rs) |->
        [id |-> ToString(i), head_sha |-> rs[i][1], conclusion |-> rs[i][2]]]

Listings ==
    {ListingsOf(rs) :
        rs \in SeqsUpTo({"s1", "s2"} \X {"failure", "success"}, MaxListed)}

(***************************************************************************)
(* State.                                                                  *)
(***************************************************************************)
VARIABLES
    runs,          \* invocations of the agent started so far
    pc,            \* the statement the current invocation is at
    error,         \* the exception that ended the invocation, or ""
    trace,         \* what the current invocation did, in order
    RUN_ID,        \* os.environ.get("RUN_ID"), "" when absent
    run_id,        \* GitHubTool.run_id
    pr_number,     \* GitHubTool.pr_number, "" when absent
    head_sha,      \* get_ci_logs: the pull request's head commit
    listing,       \* get_ci_logs: the workflow runs listed
    logs,          \* the log text, kept only where the classifier is run alone
    flag,          \* os.environ.get("CI_JANITOR_APPROVED") of this invocation
    approved,      \* run: approved
    dep,           \* run: dep
    conflict,      \* run: conflict
    human,         \* bodies of the human comments on the pull request, kept
                   \* only where the classifier is run alone: run never reads them
    manifest,      \* requirements.txt in the working tree
    head,          \* requirements.txt in the local HEAD commit
    remote,        \* requirements.txt on the pull request's branch at origin
    other,         \* other pending state of the working tree, as git status
                   \* of this invocation finds it
    PR_BRANCH,     \* os.environ.get("PR_BRANCH") as run reads it, None when absent
    GITHUB_HEAD_REF, \* os.environ.get("GITHUB_HEAD_REF"), None when absent
    branch,        \* run: branch
    max_chars,     \* make_log_excerpt: max_chars
    excerpt,       \* the text make_log_excerpt returned, <<>> before it is called
    procPc,        \* two overlapping invocations: the statement each one is at
    content,       \* two overlapping invocations: add_dependency's content of each
    index,         \* requirements.txt as staged in the git index
    history,       \* the commits the overlapping invocations made, each as
                   \* <<requirements.txt before, requirements.txt after>>
    published,     \* how many commits of history a push has brought to origin
    prevFix        \* Some(dep) when the invocation before this one ran the
                   \* approved remediation for dep to its end, else None

vars == <<runs, pc, error, trace, RUN_ID, run_id, pr_number, head_sha, listing,
          logs, flag, approved, dep, conflict, human, manifest, head, remote,
          other, PR_BRANCH, GITHUB_HEAD_REF, branch, max_chars, excerpt, prevFix,
          procPc, content, index, history, published>>

\* the variables of one invocation that the steps after classification keep
gitVars == <<manifest, head, remote, other>>

\* the state of two overlapping invocations
twoVars == <<procPc, content, index, history, published>>

envVars == <<runs, RUN_ID, pr_number, human, prevFix, logs, max_chars, excerpt,
             procPc, content, index, history, published>>

findingVars == <<flag, approved, dep, conflict>>

fetchVars == <<run_id, head_sha, listing>>

branchVars == <<PR_BRANCH, GITHUB_HEAD_REF, branch>>

(***************************************************************************)
(* CIFixAgent.run, statement by statement.                                 *)
(***************************************************************************)
\* a variant of ApprovalState: any value of the variable counts as approval
ApprovalStateAnyValue(f) == f # ""

\* os.environ.get("CI_JANITOR_APPROVED") == "1"
ApprovalState(f) == f = "1"

\* `if dep:` -- neither None nor the empty string
Truthy(d) == d # None /\ d[1] # <<>>

\* lines 174 and 198: the version conflict is searched only when dep is falsy
Finding(l) ==
    LET d == find_missing_dependency(l)
    IN  [dep |-> d,
         conflict |-> IF Truthy(d) THEN None ELSE find_python_version_conflict(l)]

\* a variant of Branch: an approved version conflict goes on to the publish step
BranchPublishesConflict(d, c, appr) ==
    IF Truthy(d) THEN (IF ~appr THEN "post_diagnosis" ELSE "add_dependency")
    ELSE IF c # None THEN (IF appr THEN "commit_and_push_fix" ELSE "post_conflict")
    ELSE "post_nofix"

\* a variant of Branch: a log without a finding is answered as a version conflict
BranchNoFallback(d, c, appr) ==
    IF Truthy(d) THEN (IF ~appr THEN "post_diagnosis" ELSE "add_dependency")
    ELSE "post_conflict"

\* a variant of Branch: the approved fix is staged without the reads before it
BranchStagesUnchecked(d, c, appr) ==
    IF Truthy(d) THEN (IF ~appr THEN "post_diagnosis" ELSE "git_add")
    ELSE IF c # None THEN "post_conflict"
    ELSE "post_nofix"

\* the statement run() goes to after classification
Branch(d, c, appr) ==
    IF Truthy(d) THEN (IF ~appr THEN "post_diagnosis" ELSE "add_dependency")
    ELSE IF c # None THEN "post_conflict"
    ELSE "post_nofix"

\* the findings of the logs a run may fetch
RunFindings == {Finding(l) : l \in RunLogs}

\* lines 171-175 and 198-199 of run, with the finding fd of the log and the
\* approval flag f
Classify(fd, f) ==
    /\ flag' = f
    /\ approved' = ApprovalState(f)
    /\ dep' = fd.dep
    /\ conflict' = fd.conflict
    /\ pc' = Branch(fd.dep, fd.conflict, ApprovalState(f))

\* an exception leaves run(): the process exits non-zero
Crash(e) ==
    /\ pc' = "crashed"
    /\ error' = e

\* the invocations that overlap
Procs == {1, 2}

\* no overlapping invocations
NoOverlap ==
    /\ procPc = [p \in Procs |-> "idle"]
    /\ content = [p \in Procs |-> <<>>]
    /\ index = <<>>
    /\ history = <<>>
    /\ published = 0

Init ==
    /\ runs = 0
    /\ pc = "idle"
    /\ error = ""
    /\ trace = <<>>
    /\ RUN_ID = ""
    /\ run_id = ""
    /\ pr_number = ""
    /\ head_sha = ""
    /\ listing = <<>>
    /\ logs = <<>>
    /\ flag = ""
    /\ approved = FALSE
    /\ dep = None
    /\ conflict = None
    /\ human = {}
    /\ manifest \in Manifests
    /\ head = manifest
    /\ remote = manifest
    /\ other = "clean"
    /\ PR_BRANCH = None
    /\ GITHUB_HEAD_REF = None
    /\ branch = None
    /\ max_chars = DefaultMaxChars
    /\ excerpt = <<>>
    /\ prevFix = None
    /\ NoOverlap

\* the process starts: GitHubTool.__init__ reads RUN_ID and PR_NUMBER
StartRun ==
    /\ pc \in {"idle", "done", "crashed"}
    /\ runs < MaxRuns
    /\ runs' = runs + 1
    /\ pc' = "get_ci_logs"
    /\ error' = ""
    /\ trace' = <<>>
    /\ \E r \in {"", "env"} : RUN_ID' = r /\ run_id' = r
    /\ \E n \in {"", "pr"} : pr_number' = n
    /\ other' = "clean"
    /\ PR_BRANCH' = None
    /\ GITHUB_HEAD_REF' = None
    /\ branch' = None
    /\ head_sha' = ""
    /\ listing' = <<>>
    /\ flag' = ""
    /\ approved' = FALSE
    /\ dep' = None
    /\ conflict' = None
    /\ prevFix' = IF pc = "done" /\ approved /\ Truthy(dep) THEN dep ELSE None
    /\ UNCHANGED <<logs, human, manifest, head, remote, max_chars, excerpt, twoVars>>

\* the runs of a listing that the loop of get_ci_logs accepts
Failed(rs, sha) ==
    {i \in 1..Len(rs) : rs[i].head_sha = sha /\ rs[i].conclusion = "failure"}

\* a variant of SelectRun: the loop without its break keeps the last accepted run
SelectRunNoBreak(rs, sha) ==
    IF Failed(rs, sha) = {} THEN "" ELSE rs[Max(Failed(rs, sha))].id

\* the loop of get_ci_logs: the id of the first accepted run, "" when there is none
SelectRun(rs, sha) ==
    IF Failed(rs, sha) = {} THEN "" ELSE rs[Min(Failed(rs, sha))].id

\* get_ci_logs, lines 105-123: resolve the run whose logs are fetched
ResolveRun ==
    /\ pc = "get_ci_logs"
    /\ \/ /\ run_id # ""
          /\ pc' = "download"
          /\ UNCHANGED <<error, fetchVars>>
       \/ /\ run_id = ""
          /\ pr_number # ""
          /\ \E rs \in Listings :
                /\ head_sha' = PrHead
                /\ listing' = rs
                /\ run_id' = SelectRun(rs, PrHead)
                /\ IF SelectRun(rs, PrHead) = ""
                   THEN Crash("RuntimeError")
                   ELSE pc' = "download" /\ UNCHANGED error
       \/ /\ run_id = ""
          /\ Crash("HTTPError")
          /\ UNCHANGED fetchVars
    /\ UNCHANGED <<trace, envVars, findingVars, gitVars, branchVars>>

\* get_ci_logs, lines 125-130, then lines 171-175 and 198-199 of run
DownloadAndClassify ==
    /\ pc = "download"
    /\ \/ /\ \E fd \in RunFindings, f \in Flags : Classify(fd, f)
          /\ head_sha' = ""
          /\ listing' = <<>>
          /\ UNCHANGED <<error, run_id>>
       \/ /\ Crash("HTTPError")
          /\ UNCHANGED <<fetchVars, findingVars>>
    /\ UNCHANGED <<trace, envVars, gitVars, branchVars>>

\* a variant of PostComment: after the version-conflict comment run() goes on to
\* the fallback comment
PostCommentFallsThrough(what) ==
    /\ \/ /\ trace' = Append(trace, what)
          /\ pc' = IF what = "comment_conflict" THEN "post_nofix" ELSE "done"
          /\ UNCHANGED error
       \/ /\ pr_number = ""
          /\ Crash("IndexError")
          /\ UNCHANGED trace
       \/ /\ Crash("HTTPError")
          /\ UNCHANGED trace
    /\ UNCHANGED <<envVars, fetchVars, findingVars, gitVars, branchVars>>

\* post_pr_comment: get_pr_number, then the POST
PostComment(what) ==
    /\ \/ /\ trace' = Append(trace, what)
          /\ pc' = "done"
          /\ UNCHANGED error
       \/ /\ pr_number = ""
          /\ Crash("IndexError")
          /\ UNCHANGED trace
       \/ /\ Crash("HTTPError")
          /\ UNCHANGED trace
    /\ UNCHANGED <<envVars, fetchVars, findingVars, gitVars, branchVars>>

\* lines 176-189
PostDiagnosis ==
    /\ pc = "post_diagnosis"
    /\ PostComment("comment_diagnosis")

\* os.environ.get("PR_BRANCH") or os.environ.get("GITHUB_HEAD_REF")
BranchOf(pb, hr) == IF pb # None THEN pb ELSE hr

\* f"HEAD:{branch}": the destination of the push; None is formatted as "None"
PushTarget(b) == IF b = None THEN "None" ELSE b[1]

\* lines 191-192; reading or writing the file may fail
AddDependency ==
    /\ pc = "add_dependency"
    /\ \/ /\ manifest' = add_dependency(manifest, dep[1])
          /\ trace' = trace \o <<"read_manifest">>
                            \o (IF NeedsWrite(manifest, dep[1])
                                THEN <<"write_manifest">> ELSE <<>>)
          /\ \E pb \in PrBranches, hr \in HeadRefs :
                /\ PR_BRANCH' = pb
                /\ GITHUB_HEAD_REF' = hr
                /\ branch' = BranchOf(pb, hr)
          /\ pc' = "commit_and_push_fix"
          /\ UNCHANGED error
       \/ /\ Crash("OSError")
          /\ UNCHANGED <<manifest, trace, branchVars>>
    /\ UNCHANGED <<envVars, fetchVars, findingVars, head, remote, other>>

\* `git status --porcelain` prints something when the tree's other state is o
StatusNonEmpty(o) == manifest # head \/ o # "clean"

\* commit_and_push_fix, lines 20-31
GitStatus ==
    /\ pc = "commit_and_push_fix"
    /\ \/ /\ \E o \in Others :
                /\ other' = o
                /\ pc' = IF StatusNonEmpty(o) THEN "git_add" ELSE "post_success"
          /\ trace' = Append(trace, "git_status")
          /\ UNCHANGED error
       \/ /\ Crash("CalledProcessError")
          /\ UNCHANGED <<trace, other>>
    /\ UNCHANGED <<envVars, fetchVars, findingVars, branchVars, manifest, head, remote>>

\* line 33
GitAdd ==
    /\ pc = "git_add"
    /\ trace' = Append(trace, "git_add")
    /\ \/ pc' = "git_commit" /\ UNCHANGED error
       \/ Crash("CalledProcessError")
    /\ UNCHANGED <<envVars, fetchVars, findingVars, gitVars, branchVars>>

\* `git commit` has something to commit
CanCommit == manifest # head \/ other = "staged"

\* line 34
GitCommit ==
    /\ pc = "git_commit"
    /\ trace' = Append(trace, "git_commit")
    /\ IF CanCommit
       THEN /\ head' = manifest
            /\ other' = IF other = "staged" THEN "clean" ELSE other
            /\ pc' = "git_push"
            /\ UNCHANGED error
       ELSE /\ Crash("CalledProcessError")
            /\ UNCHANGED <<head, other>>
    /\ UNCHANGED <<envVars, fetchVars, findingVars, branchVars, manifest, remote>>

\* line 35
GitPush ==
    /\ pc = "git_push"
    /\ trace' = Append(trace, "git_push")
    /\ \/ /\ remote' = IF PushTarget(branch) \in SourceBranchNames THEN head ELSE remote
          /\ pc' = "post_success"
          /\ UNCHANGED error
       \/ /\ Crash("CalledProcessError")
          /\ UNCHANGED remote
    /\ UNCHANGED <<envVars, fetchVars, findingVars, branchVars, manifest, head, other>>

\* line 194
PostSuccess ==
    /\ pc = "post_success"
    /\ PostComment("comment_success")

\* lines 203-207
PostConflict ==
    /\ pc = "post_conflict"
    /\ PostComment("comment_conflict")

\* the fallback comment of the Unclassified finding
PostNoFix ==
    /\ pc = "post_nofix"
    /\ PostComment("comment_nofix")

Next ==
    \/ StartRun
    \/ ResolveRun
    \/ DownloadAndClassify
    \/ PostDiagnosis
    \/ AddDependency
    \/ GitStatus
    \/ GitAdd
    \/ GitCommit
    \/ GitPush
    \/ PostSuccess
    \/ PostConflict
    \/ PostNoFix

Spec == Init /\ [][Next]_vars

(***************************************************************************)
(* The classifier and the approval decision alone, on every log, approval  *)
(* flag and comment thread of the bounds.                                  *)
(***************************************************************************)
InitClassify ==
    /\ runs = 1
    /\ pc = "classify"
    /\ error = ""
    /\ trace = <<>>
    /\ RUN_ID = "env"
    /\ run_id = "env"
    /\ pr_number = "pr"
    /\ head_sha = ""
    /\ listing = <<>>
    /\ logs \in Logs
    /\ flag = ""
    /\ approved = FALSE
    /\ dep = None
    /\ conflict = None
    /\ human \in SUBSET Bodies
    /\ manifest = <<>>
    /\ head = <<>>
    /\ remote = <<>>
    /\ other = "clean"
    /\ PR_BRANCH = None
    /\ GITHUB_HEAD_REF = None
    /\ branch = None
    /\ max_chars = DefaultMaxChars
    /\ excerpt = <<>>
    /\ prevFix = None
    /\ NoOverlap

\* lines 171-175 and 198-199 of run, on the log held in logs
ClassifyLogs ==
    /\ pc = "classify"
    /\ \E f \in Flags : Classify(Finding(logs), f)
    /\ UNCHANGED <<error, trace, envVars, fetchVars, gitVars, branchVars>>

NextClassify == ClassifyLogs

SpecClassify == InitClassify /\ [][NextClassify]_vars

(***************************************************************************)
(* One invocation followed from its log to its end, on logs that may hold  *)
(* several markers.                                                        *)
(***************************************************************************)
\* the fragments of these logs
FixPieces ==
    { Marker(<<"a">>), Marker(<<"b">>), Marker(<<"a", "\n", "b">>),
      NoModuleNamed \o <<"'">>, <<"\n">>, <<"Requires-Python", " ", "c">> }

FixLogs == {Flatten(ps) : ps \in SeqsUpTo(FixPieces, MaxFixPieces)}

InitOneRun ==
    /\ runs = 1
    /\ pc = "classify"
    /\ error = ""
    /\ trace = <<>>
    /\ RUN_ID = "env"
    /\ run_id = "env"
    /\ pr_number = "pr"
    /\ head_sha = ""
    /\ listing = <<>>
    /\ logs \in FixLogs
    /\ flag = ""
    /\ approved = FALSE
    /\ dep = None
    /\ conflict = None
    /\ human = {}
    /\ manifest \in Manifests
    /\ head = manifest
    /\ remote = manifest
    /\ other = "clean"
    /\ PR_BRANCH = None
    /\ GITHUB_HEAD_REF = None
    /\ branch = None
    /\ max_chars = DefaultMaxChars
    /\ excerpt = <<>>
    /\ prevFix = None
    /\ NoOverlap

NextOneRun ==
    \/ ClassifyLogs
    \/ PostDiagnosis
    \/ AddDependency
    \/ GitStatus
    \/ GitAdd
    \/ GitCommit
    \/ GitPush
    \/ PostSuccess
    \/ PostConflict
    \/ PostNoFix

SpecOneRun == InitOneRun /\ [][NextOneRun]_vars

(***************************************************************************)
(* make_log_excerpt alone, on logs with a marker line.                     *)
(***************************************************************************)
InitExcerpt ==
    /\ runs = 1
    /\ pc = "make_log_excerpt"
    /\ error = ""
    /\ trace = <<>>
    /\ RUN_ID = "env"
    /\ run_id = "env"
    /\ pr_number = "pr"
    /\ head_sha = ""
    /\ listing = <<>>
    /\ logs \in ExcerptLogs
    /\ flag = ""
    /\ approved = FALSE
    /\ dep = None
    /\ conflict = None
    /\ human = {}
    /\ manifest = <<>>
    /\ head = <<>>
    /\ remote = <<>>
    /\ other = "clean"
    /\ PR_BRANCH = None
    /\ GITHUB_HEAD_REF = None
    /\ branch = None
    /\ max_chars \in Caps
    /\ excerpt = <<>>
    /\ prevFix = None
    /\ NoOverlap

\* the call make_log_excerpt(logs, max_chars=max_chars), next to the search that
\* names the module
MakeExcerpt ==
    /\ pc = "make_log_excerpt"
    /\ excerpt' = make_log_excerpt(logs, 30, max_chars)
    /\ dep' = find_missing_dependency(logs)
    /\ pc' = "done"
    /\ UNCHANGED <<runs, error, trace, RUN_ID, pr_number, human, prevFix, logs,
                   max_chars, flag, approved, conflict, fetchVars, gitVars,
                   branchVars, twoVars>>

NextExcerpt == MakeExcerpt

SpecExcerpt == InitExcerpt /\ [][NextExcerpt]_vars

(***************************************************************************)
(* Two invocations for the same approved finding whose steps interleave on *)
(* one working tree and one repository: lines 191-194 of run, with         *)
(* add_dependency and commit_and_push_fix taken apart into their file and  *)
(* git operations.                                                         *)
(***************************************************************************)
\* what the steps of the overlapping invocations leave alone
oneRunVars ==
    <<runs, pc, error, trace, RUN_ID, run_id, pr_number, head_sha, listing, logs,
      flag, approved, dep, conflict, human, other, PR_BRANCH, GITHUB_HEAD_REF,
      branch, max_chars, excerpt, prevFix>>

\* the logs of the finding that both invocations handle
TwoRunLogs == { Marker(<<"b">>), Marker(<<"a", "\n", "b">>) }

InitTwoRuns ==
    /\ runs = 2
    /\ pc = "overlap"
    /\ error = ""
    /\ trace = <<>>
    /\ RUN_ID = "env"
    /\ run_id = "env"
    /\ pr_number = "pr"
    /\ head_sha = ""
    /\ listing = <<>>
    /\ logs = <<>>
    /\ flag = "1"
    /\ approved = ApprovalState("1")
    /\ \E l \in TwoRunLogs : dep = Finding(l).dep
    /\ conflict = None
    /\ human = {}
    /\ manifest \in {m \in Manifests : NeedsWrite(m, dep[1])}
    /\ head = manifest
    /\ remote = manifest
    /\ other = "clean"
    /\ PR_BRANCH = Some("pr-branch")
    /\ GITHUB_HEAD_REF = None
    /\ branch = BranchOf(PR_BRANCH, GITHUB_HEAD_REF)
    /\ max_chars = DefaultMaxChars
    /\ excerpt = <<>>
    /\ prevFix = None
    /\ procPc = [p \in Procs |-> "read_text"]
    /\ content = [p \in Procs |-> <<>>]
    /\ index = manifest
    /\ history = <<>>
    /\ published = 0

\* invocation p goes to statement l
Goto(p, l) == procPc' = [procPc EXCEPT ![p] = l]

\* lines 154-156: read the file, look the module up
ReadText(p) ==
    /\ procPc[p] = "read_text"
    /\ content' = [content EXCEPT ![p] = splitlines(manifest)]
    /\ Goto(p, IF dep[1] \notin Range(splitlines(manifest))
               THEN "open_w" ELSE "git_status")
    /\ UNCHANGED <<oneRunVars, manifest, head, remote, index, history, published>>

\* line 158, write_text: opening the file for writing empties it
OpenForWrite(p) ==
    /\ procPc[p] = "open_w"
    /\ manifest' = <<>>
    /\ Goto(p, "write")
    /\ UNCHANGED <<oneRunVars, head, remote, content, index, history, published>>

\* the file text after data is written at its start: what the file holds
\* beyond the length of data stays
WriteAtStart(text, data) == data \o SubSeq(text, Len(data) + 1, Len(text))

\* lines 157-158, write_text: the text is written at the start of the file
\* opened before, and the file is closed
WriteText(p) ==
    /\ procPc[p] = "write"
    /\ manifest' = WriteAtStart(manifest, join(Append(content[p], dep[1])) \o <<"\n">>)
    /\ Goto(p, "git_status")
    /\ UNCHANGED <<oneRunVars, head, remote, content, index, history, published>>

\* lines 23-31: git status --porcelain, return when it prints nothing
TwoGitStatus(p) ==
    /\ procPc[p] = "git_status"
    /\ Goto(p, IF manifest # head \/ index # head THEN "git_add" ELSE "post_success")
    /\ UNCHANGED <<oneRunVars, manifest, head, remote, content, index, history,
                   published>>

\* line 33: stage the file as it is now; git may find the index locked
TwoGitAdd(p) ==
    /\ procPc[p] = "git_add"
    /\ \/ index' = manifest /\ Goto(p, "git_commit")
       \/ Goto(p, "crashed") /\ UNCHANGED index
    /\ UNCHANGED <<oneRunVars, manifest, head, remote, content, history, published>>

\* line 34: commit what is staged; exits non-zero when nothing is staged
TwoGitCommit(p) ==
    /\ procPc[p] = "git_commit"
    /\ IF index # head
       THEN /\ head' = index
            /\ history' = Append(history, <<head, index>>)
            /\ Goto(p, "git_push")
       ELSE /\ Goto(p, "crashed")
            /\ UNCHANGED <<head, history>>
    /\ UNCHANGED <<oneRunVars, manifest, remote, content, index, published>>

\* line 35: push the local branch, or fail
TwoGitPush(p) ==
    /\ procPc[p] = "git_push"
    /\ \/ /\ remote' = head
          /\ published' = Len(history)
          /\ Goto(p, "post_success")
       \/ /\ Goto(p, "crashed")
          /\ UNCHANGED <<remote, published>>
    /\ UNCHANGED <<oneRunVars, manifest, head, content, index, history>>

\* line 194
TwoPostSuccess(p) ==
    /\ procPc[p] = "post_success"
    /\ Goto(p, "done")
    /\ UNCHANGED <<oneRunVars, manifest, head, remote, content, index, history,
                   published>>

NextTwoRuns ==
    \/ \E p \in Procs : ReadText(p)
    \/ \E p \in Procs : OpenForWrite(p)
    \/ \E p \in Procs : WriteText(p)
    \/ \E p \in Procs : TwoGitStatus(p)
    \/ \E p \in Procs : TwoGitAdd(p)
    \/ \E p \in Procs : TwoGitCommit(p)
    \/ \E p \in Procs : TwoGitPush(p)
    \/ \E p \in Procs : TwoPostSuccess(p)

SpecTwoRuns == InitTwoRuns /\ [][NextTwoRuns]_vars

(***************************************************************************)
(* Properties.                                                             *)
(***************************************************************************)
\* the current invocation executed the step e
Did(e) == e \in Range(trace)

\* the steps that change the manifest, the local branch or the remote branch
Mutations == {"write_manifest", "git_add", "git_commit", "git_push"}

\* the comments the agent posts
Comments ==
    {"comment_diagnosis", "comment_success", "comment_conflict", "comment_nofix"}

\* C1: an invocation without the approval signal whose log yields a missing
\* dependency writes no manifest and runs no git command; all it does is post the
\* one diagnosis comment, whatever an earlier invocation was approved to do.
C1_UnapprovedOnlyDiagnoses ==
    (flag # "1" /\ Truthy(dep)) =>
        /\ trace \in {<<>>, <<"comment_diagnosis">>}
        /\ pc = "done" => trace = <<"comment_diagnosis">>
        /\ pc \in {"post_diagnosis", "done", "crashed"}

\* an unapproved invocation that diagnosed a missing dependency right after an
\* approved invocation that applied a fix
C1_Witness ==
    /\ runs = 2
    /\ prevFix # None
    /\ flag # "1"
    /\ Truthy(dep)
    /\ pc = "done"
    /\ trace = <<"comment_diagnosis">>

\* C2: an invocation whose finding is a version conflict writes no manifest and
\* runs no git command, approved or not; all it does is post one comment.
C2_ConflictNeverMutates ==
    (~Truthy(dep) /\ conflict # None) =>
        /\ trace \in {<<>>, <<"comment_conflict">>}
        /\ pc = "done" => trace = <<"comment_conflict">>
        /\ \A e \in Mutations : ~Did(e)

\* an approved invocation that found a version conflict and only commented
C2_Witness ==
    /\ dep = None
    /\ conflict # None
    /\ approved
    /\ pc = "done"
    /\ trace = <<"comment_conflict">>

\* every e1 of the trace comes before every e2 of the trace
Before(e1, e2) ==
    \A i, j \in DOMAIN trace : (trace[i] = e1 /\ trace[j] = e2) => i < j

\* C3: when the approved remediation for a module ran to its end and the next
\* invocation runs the approved remediation for the same module, that second
\* invocation leaves the manifest as it is and runs neither commit nor push.
C3_SecondRunIsNoOp ==
    (prevFix # None /\ approved /\ dep = prevFix) =>
        /\ ~Did("write_manifest")
        /\ ~Did("git_commit")
        /\ ~Did("git_push")

\* C4: an approved invocation that finds the module already in the manifest, and
\* so writes nothing, skips staging, commit and push, whatever else is pending in
\* the working tree.
C4_NoOpSkipsPublish ==
    (approved /\ Truthy(dep) /\ Did("read_manifest") /\ ~Did("write_manifest")) =>
        /\ ~Did("git_add")
        /\ ~Did("git_commit")
        /\ ~Did("git_push")

\* C8: an approved missing-dependency invocation that ends normally leaves the
\* module as an entry of the manifest and has posted the success comment last,
\* after the write, the commit and the push, in that order.
C8_ApprovedRunAppliesAndConfirms ==
    (pc = "done" /\ approved /\ Truthy(dep)) =>
        /\ dep[1] \in Range(splitlines(manifest))
        /\ trace # <<>> /\ trace[Len(trace)] = "comment_success"
        /\ Before("write_manifest", "git_commit")
        /\ Before("git_commit", "git_push")
        /\ Before("git_push", "comment_success")

\* C9: an invocation that fails to resolve the pull request has posted no comment,
\* written no manifest and neither committed nor pushed.
C9_UnresolvedPrHasNoEffect ==
    error = "IndexError" =>
        \A e \in Comments \cup {"write_manifest", "git_commit", "git_push"} : ~Did(e)

\* the position of the first run of the listing that belongs to the pull
\* request's head commit and failed, 0 when there is none
FirstFailed ==
    IF \E i \in DOMAIN listing :
          listing[i].head_sha = head_sha /\ listing[i].conclusion = "failure"
    THEN CHOOSE i \in DOMAIN listing :
          /\ listing[i].head_sha = head_sha /\ listing[i].conclusion = "failure"
          /\ \A j \in 1..(i - 1) :
                ~(listing[j].head_sha = head_sha /\ listing[j].conclusion = "failure")
    ELSE 0

\* C10: without a configured run id, the logs that are downloaded are those of the
\* first listed run on the pull request's head commit whose conclusion is failure;
\* when the listing holds no such run the invocation ends with RuntimeError before
\* it classified, commented, wrote or ran git.
C10_FailedRunOrHardFailure ==
    /\ (RUN_ID = "" /\ pc = "download") =>
          /\ FirstFailed # 0
          /\ run_id = listing[FirstFailed].id
    /\ (RUN_ID = "" /\ head_sha # "" /\ FirstFailed = 0) =>
          /\ pc = "crashed"
          /\ error = "RuntimeError"
    /\ error = "RuntimeError" =>
          /\ RUN_ID = "" /\ FirstFailed = 0
          /\ trace = <<>>
          /\ dep = None /\ conflict = None

\* the listing holds a failed run of another commit and a successful run of the
\* pull request's commit, and the invocation ended with RuntimeError
C10_Witness ==
    /\ error = "RuntimeError"
    /\ pc = "crashed"
    /\ Len(listing) = 2
    /\ \E i \in DOMAIN listing : listing[i].conclusion = "failure"
    /\ \E i \in DOMAIN listing : listing[i].head_sha = head_sha
    /\ trace = <<>>

\* names a well-formed marker may quote: identifiers
Names == {<<"a">>, <<"b">>}

\* the log l holds, at position i, a well-formed marker quoting the name m
MarkerAt(l, i, m) == MatchLit(l, i, Marker(m))

\* the log l holds a version-conflict line
HasConflictMarker(l) ==
    \E i \in 1..Len(l) :
        \/ MatchLit(l, i, <<"Requires-Python", " ", "c">>)
        \/ MatchLit(l, i, <<"Package", " ", "p", " ", "requires", " ", "Python", " ", "d">>)

\* run() took the missing-dependency branch
TookMissingBranch == pc \in {"post_diagnosis", "add_dependency"}

\* C5: without the explicit signal the approval state of a missing-dependency
\* finding follows the comments: it is Approved exactly when some comment body is
\* the approval token, and then the fix is applied.
C5_CommentsDecideApproval ==
    (pc # "classify" /\ flag = "" /\ Truthy(dep)) =>
        /\ approved <=> (\E b \in human : b = ApprovalToken)
        /\ ApprovalToken \in human => pc = "add_dependency"

\* C6: a log that holds both a well-formed missing-dependency marker and a
\* version-conflict line, in either order, sends run() into the
\* missing-dependency branch.
C6_MissingOutranksConflict ==
    (/\ pc # "classify"
     /\ \E i \in 1..Len(logs), m \in Names : MarkerAt(logs, i, m)
     /\ HasConflictMarker(logs)) => TookMissingBranch

\* C7: a log that holds a well-formed marker yields the missing-dependency finding
\* for the name the first such marker quotes, whatever stands before and after.
C7_FirstMarkerIsReported ==
    pc # "classify" =>
        \A i \in 1..Len(logs), m \in Names :
            (/\ MarkerAt(logs, i, m)
             /\ \A j \in 1..(i - 1), n \in Names : ~MarkerAt(logs, j, n))
            => (dep = Some(m) /\ TookMissingBranch)

\* C11: add_dependency keeps the entries of the manifest in their order; when
\* the module is not an entry, the entries afterwards are the old entries followed
\* by the module and the file ends with exactly one newline; when the module is an
\* entry, the file is not written.
C11_AppendKeepsEntries ==
    [][(pc = "add_dependency" /\ pc' = "commit_and_push_fix") =>
          LET old == splitlines(manifest)
              new == splitlines(manifest')
              n   == Len(manifest')
          IN  IF dep[1] \in Range(old)
              THEN manifest' = manifest /\ "write_manifest" \notin Range(trace')
              ELSE /\ new = Append(old, dep[1])
                   /\ "write_manifest" \in Range(trace')
                   /\ n >= 2 /\ manifest'[n] = "\n" /\ manifest'[n - 1] # "\n"]_vars

\* C12: an invocation whose log yields neither finding, the empty log included,
\* is not an error: it goes to the fallback comment, reads and writes no manifest,
\* runs no git command, and when it ends normally the one thing it did is post
\* the "no known fix" comment; only a failing post ends it otherwise.
C12_UnclassifiedOnlyComments ==
    /\ pc = "post_nofix" => (~Truthy(dep) /\ conflict = None /\ error = "")
    /\ (~Truthy(dep) /\ conflict = None) =>
          /\ trace \in {<<>>, <<"comment_nofix">>}
          /\ \A e \in Mutations \cup {"read_manifest", "git_status"} : ~Did(e)
          /\ pc = "done" => (trace = <<"comment_nofix">> /\ error = "")
          /\ Did("comment_nofix") => pc = "done"

\* an approved invocation on a log without a pattern ended normally after the
\* fallback comment, with the manifest, the local and the remote branch as before
C12_Witness ==
    /\ pc = "done"
    /\ flag = "1"
    /\ dep = None
    /\ conflict = None
    /\ error = ""
    /\ trace = <<"comment_nofix">>
    /\ manifest = head
    /\ head = remote

\* C13: within an invocation the manifest is read, and the module looked up in
\* it, before the manifest is written, and git status is queried before anything
\* is staged, committed or pushed; none of these writes happens without its read.
C13_ReadsPrecedeWrites ==
    /\ Did("write_manifest") =>
          /\ approved /\ Truthy(dep)
          /\ Did("read_manifest")
          /\ Before("read_manifest", "write_manifest")
    /\ \A e \in {"git_add", "git_commit", "git_push"} :
          Did(e) =>
             /\ approved /\ Truthy(dep)
             /\ Did("read_manifest") /\ Before("read_manifest", e)
             /\ Did("git_status") /\ Before("git_status", e)

\* an approved invocation that wrote the manifest, staged, committed and pushed
C13_Witness ==
    /\ approved
    /\ Truthy(dep)
    /\ trace = <<"read_manifest", "write_manifest", "git_status", "git_add",
                 "git_commit", "git_push">>
    /\ pc = "post_success"

\* the comment of the terminal action that the finding and the approval select
TerminalComment ==
    IF Truthy(dep) THEN (IF approved THEN "comment_success" ELSE "comment_diagnosis")
    ELSE IF conflict # None THEN "comment_conflict"
    ELSE "comment_nofix"

\* the positions of the trace at which a comment was posted
Posted == {i \in DOMAIN trace : trace[i] \in Comments}

\* C14: an invocation posts at most one comment, and posting it is the last thing
\* it does; an invocation that ends normally has posted exactly one comment, the
\* one of the terminal action its finding and approval state select.
C14_OneTerminalAction ==
    /\ Cardinality(Posted) <= 1
    /\ Posted # {} => (pc = "done" /\ Posted = {Len(trace)})
    /\ pc = "done" =>
          /\ Cardinality(Posted) = 1
          /\ trace[Len(trace)] = TerminalComment
          /\ error = ""

\* a second invocation ended normally with the version-conflict comment alone
C14_Witness ==
    /\ runs = 2
    /\ pc = "done"
    /\ conflict # None
    /\ trace = <<"comment_conflict">>

\* C15: when an invocation has run git push, the context supplied a branch name
\* and the destination of the push is that name, PR_BRANCH when it is set and
\* GITHUB_HEAD_REF otherwise; what was pushed is the commit made after staging
\* requirements.txt.
C15_PushTargetsSuppliedBranch ==
    Did("git_push") =>
        /\ PR_BRANCH # None \/ GITHUB_HEAD_REF # None
        /\ PushTarget(branch) =
              (IF PR_BRANCH # None THEN PR_BRANCH[1] ELSE GITHUB_HEAD_REF[1])
        /\ Did("git_add") /\ Before("git_add", "git_commit")
        /\ Did("git_commit") /\ Before("git_commit", "git_push")

\* the well-formed markers of the log, as <<position, name>>
MarkersOf(l) == {<<i, m>> \in (1..Len(l)) \X Names : MarkerAt(l, i, m)}

\* the name quoted by the first well-formed marker of a log that holds one
FirstMarked(l) ==
    (CHOOSE p \in MarkersOf(l) : \A q \in MarkersOf(l) : p[1] <= q[1])[2]

\* the number of commits the current invocation made
Commits == Cardinality({i \in DOMAIN trace : trace[i] = "git_commit"})

\* C16: one invocation adds at most one entry to the manifest and makes at most
\* one commit, also when its log holds markers for several modules; the entry it
\* adds is the module of the first marker of the log.
C16_OneFixPerRun ==
    [][/\ Len(splitlines(manifest')) <= Len(splitlines(manifest)) + 1
       /\ Len(splitlines(manifest')) <= Len(splitlines(remote)) + 1
       /\ Commits' <= 1
       /\ (manifest' # manifest /\ MarkersOf(logs) # {}) =>
             splitlines(manifest') = Append(splitlines(manifest), FirstMarked(logs))
      ]_vars

\* the text of l from position k to the end of its line
RestOfLine(l, k) ==
    SubSeq(l, k, CHOOSE e \in k..Len(l) :
                    /\ \A j \in k..e : l[j] # "\n"
                    /\ e = Len(l) \/ l[e + 1] = "\n")

\* the log l holds at position i a line "Package p requires Python C"
PackageLineAt(l, i) ==
    /\ MatchLit(l, i, <<"Package", " ", "p", " ", "requires", " ", "Python", " ">>)
    /\ i + 8 <= Len(l)
    /\ ~IsSpace(l[i + 8])

\* the log l holds at position i a line "Requires-Python C"
RequiresLineAt(l, i) ==
    /\ MatchLit(l, i, <<"Requires-Python", " ">>)
    /\ i + 2 <= Len(l)
    /\ ~IsSpace(l[i + 2])

\* C17: when the version conflict is searched, a log with a line "Package X
\* requires Python C" yields (X, C), also when a "Requires-Python" line stands
\* before it, and a log with "Requires-Python C" lines only yields
\* ("unknown-package", C).
C17_ConflictExtraction ==
    (pc # "classify" /\ ~Truthy(dep)) =>
        LET P == {i \in 1..Len(logs) : PackageLineAt(logs, i)}
            R == {i \in 1..Len(logs) : RequiresLineAt(logs, i)}
        IN  /\ P # {} => conflict = <<<<"p">>, RestOfLine(logs, Min(P) + 8)>>
            /\ (P = {} /\ R # {}) =>
                  conflict = <<<<"unknown-package">>, RestOfLine(logs, Min(R) + 2)>>

\* the line of the log l, counted from 1, on which the missing-module pattern matches
MatchedLine(l) ==
    LET pos == Min({i \in 1..Len(l) : MissingMatchEnd(l, i) # {}})
    IN  1 + Cardinality({j \in 1..(pos - 1) : l[j] = "\n"})

\* the text t ends with the truncation mark
IsMarked(t) ==
    /\ Len(t) >= Len(TruncationMark)
    /\ SubSeq(t, Len(t) - Len(TruncationMark) + 1, Len(t)) = TruncationMark

\* C18: for a log in which the missing-module pattern matches on line k, the
\* excerpt holds line k unless it was cut at the cap; it is never longer than the
\* cap plus the truncation mark; and it ends with the mark exactly when it was cut.
C18_ExcerptAroundMatch ==
    (pc = "done" /\ excerpt # <<>>) =>
        /\ ~IsMarked(excerpt) =>
              splitlines(logs)[MatchedLine(logs)] \in Range(splitlines(excerpt))
        /\ Len(excerpt) <= max_chars + Len(TruncationMark)
        /\ IsMarked(excerpt) <=> Len(excerpt) > max_chars
        /\ IsMarked(excerpt) => Len(excerpt) = max_chars + Len(TruncationMark)

\* C19: over the invocations on one working tree, whenever the success comment
\* for a module is posted, the pull request's branch at origin holds the module as
\* a manifest entry.  Stated for a module name on one line and a push destination
\* that the context supplied, so that only failed git steps are in play.
C19_SuccessMeansPublished ==
    (/\ Did("comment_success")
     /\ "\n" \notin Range(dep[1])
     /\ branch # None) =>
        dep[1] \in Range(splitlines(remote))

\* how often the module m is an entry of the manifest text t
Occurrences(t, m) ==
    Cardinality({i \in DOMAIN splitlines(t) : splitlines(t)[i] = m})

\* the commits of history that a push has brought to origin and that add the
\* module as an entry
PublishedAdding ==
    {i \in 1..published :
        Occurrences(history[i][2], dep[1]) > Occurrences(history[i][1], dep[1])}

\* C20: when two invocations for the same approved module, absent from the
\* manifest at first, have both ended, whatever way their steps interleaved, the
\* manifest holds the module as an entry exactly once, and at most one commit
\* that adds the module has been published.  Stated for a module name on one
\* line, so that only the interleaving is in play.
C20_OverlapAppendsOnce ==
    (/\ \A p \in Procs : procPc[p] \in {"done", "crashed"}
     /\ "\n" \notin Range(dep[1])) =>
        /\ Occurrences(manifest, dep[1]) = 1
        /\ Cardinality(PublishedAdding) <= 1

====
